---- MODULE Spec2Model ----
(***************************************************************************)
(* Smart Energy charge scheduler (homeassistant/components/smartenergy).   *)
(* The model follows StateFetcher.fetch_states and its helpers in          *)
(* state.py: one coordinator refresh ("tick") walks the consumers of the   *)
(* main state; each loop iteration reads the car status, refreshes the     *)
(* stored schedules and starts / stops the charging.                       *)
(*                                                                         *)
(* Time is counted in half hours (Hour == 2), so that "exactly at the      *)
(* start", "inside the hour", "exactly at the end" and "after the end" of  *)
(* a schedule are four different instants.                                 *)
(***************************************************************************)
EXTENDS Integers, Sequences, FiniteSets, TLC

\* ------------------------------------------------------------------ bounds
MaxTime == 5        \* the clock runs from 0 to MaxTime
MaxForecast == 2    \* longest forecast list of the price sensor
MaxQuota == 2       \* largest configured hours_to_charge

\* --------------------------------------------------------------- constants
Hour == 2           \* timedelta(hours=1), in clock units
None == -1          \* Python's None in a datetime field
NoQuota == -1000    \* Python's None in current_cycle_hours_to_charge

CHARGING == "Car is charging"
READY == "Charging finished, car can be disconnected"
NO_CAR == "Ready, no car connected"
UNKNOWN == ""

Statuses == {CHARGING, READY, NO_CAR, UNKNOWN}
Names == {"charger1"}
Prices == {1, 2}
StartTimes == {0, Hour, 2 * Hour}
Deadlines == {Hour}
Entries == [marketprice : Prices, start_time : StartTimes]

VARIABLES
    data,        \* coordinator.data[CONF_CONSUMERS]: name -> consumer record
    schedules,   \* hass.states smartenergy.<name>_current_schedules: name -> list
    car_status,  \* hass.states sensor.smartenergy_goecharger_<name>_car_status
    forecast,    \* hass.states sensor.smartenergy_awattar_forecast
    now,         \* datetime.now()
    queue,       \* consumers the running fetch_states has still to visit
    running,     \* a fetch_states call is between its first and last line
    lastCmd,     \* last service call made for each consumer
    prev         \* what the last loop iteration read and did

vars == <<data, schedules, car_status, forecast, now, queue, running, lastCmd, prev>>

\* ------------------------------------------------------------ pure helpers
Min(a, b) == IF a < b THEN a ELSE b
Max(a, b) == IF a > b THEN a ELSE b

\* faulty variant: the entries are compared by start time first
KeyLess_TimeFirst(a, b) ==
    \/ a.start_time < b.start_time
    \/ a.start_time = b.start_time /\ a.value < b.value

\* itemgetter(VALUE, START_TIME): tuple comparison of two schedule entries
KeyLess(a, b) ==
    \/ a.value < b.value
    \/ a.value = b.value /\ a.start_time < b.start_time

\* position at which sorted() places x in the sorted list s (stable)
RECURSIVE InsertSorted(_, _)
InsertSorted(x, s) ==
    IF s = <<>> THEN <<x>>
    ELSE IF KeyLess(x, Head(s)) THEN <<x>> \o s
    ELSE <<Head(s)>> \o InsertSorted(x, Tail(s))

RECURSIVE SortedByKey(_)
SortedByKey(s) ==
    IF s = <<>> THEN <<>>
    ELSE InsertSorted(s[Len(s)], SortedByKey(SubSeq(s, 1, Len(s) - 1)))

\* the loop of find_forecast_dates: keep the prices that start by end_date
RECURSIVE ForecastData(_, _)
ForecastData(prices, end_date) ==
    IF prices = <<>> THEN <<>>
    ELSE LET price == Head(prices)
             rest == ForecastData(Tail(prices), end_date)
         IN IF price.start_time <= end_date
            THEN <<[value |-> price.marketprice, start_time |-> price.start_time]>> \o rest
            ELSE rest

\* faulty variant: the eligible prices are returned in the forecast's order
find_forecast_dates_Unsorted(fc, end_date) ==
    IF ~fc.available THEN <<>>
    ELSE ForecastData(fc.list, end_date)

find_forecast_dates(fc, end_date) ==
    IF ~fc.available THEN <<>>
    ELSE SortedByKey(ForecastData(fc.list, end_date))

\* Python's seq[0:n:] for an integer n
Slice0(s, n) ==
    IF n >= 0 THEN SubSeq(s, 1, Min(n, Len(s)))
    ELSE SubSeq(s, 1, Max(Len(s) + n, 0))

\* Python's seq[0:n:] for n an integer or None
SliceTo(s, n) == IF n = NoQuota THEN s ELSE Slice0(s, n)

\* `start_time <= end_date` raises TypeError when end_date is None
find_forecast_dates_raises(fc, end_date) ==
    fc.available /\ fc.list # <<>> /\ end_date = None

\* ----------------------------------------------------------- the controller
GO_E == "smartenergy_goecharger"

\* controller.start_charging: the service is called for a supported device only
start_charging(output_type) ==
    IF output_type = GO_E THEN <<"start">> ELSE <<>>

\* controller.stop_charging
stop_charging(output_type) ==
    IF output_type = GO_E THEN <<"stop">> ELSE <<>>

\* --------------------------------------------------------- consumer records
\* one entry of get_consumer_config's result
\* faulty variant: a new record already has the retry pending
ConsumerRecord_Pending(hours_to_charge, next_time_window) ==
    [ enabled |-> TRUE,
      output_source |-> GO_E,
      current_schedule_start |-> None,
      current_schedule_end |-> None,
      current_cycle_hours_to_charge |-> hours_to_charge,
      current_cycle_charging_time_window_date |-> next_time_window,
      start_scheduled_charging |-> TRUE,
      charging_schedules_enabled |-> TRUE ]

ConsumerRecord(hours_to_charge, next_time_window) ==
    [ enabled |-> TRUE,
      output_source |-> GO_E,
      current_schedule_start |-> None,
      current_schedule_end |-> None,
      current_cycle_hours_to_charge |-> hours_to_charge,
      current_cycle_charging_time_window_date |-> next_time_window,
      start_scheduled_charging |-> FALSE,
      charging_schedules_enabled |-> TRUE ]

\* what a helper hands back: the record, the stored schedules, the service calls
Result(rec, stored, cmds) == [rec |-> rec, stored |-> stored, cmds |-> cmds]

\* ------------------------------------------------------ StateFetcher methods
\* the local list `schedules`; whenever it is recomputed it is also stored,
\* so after this call the stored list equals the returned one
\* faulty variant: the pending retry does not protect the stored schedules
calculate_next_schedules_IgnoresFlag(status, rec, stored, fc) ==
    IF status # CHARGING \/ stored = <<>>
    THEN SliceTo(find_forecast_dates(fc, rec.current_cycle_charging_time_window_date),
                 rec.current_cycle_hours_to_charge)
    ELSE stored

calculate_next_schedules(status, rec, stored, fc) ==
    IF (status # CHARGING /\ rec.start_scheduled_charging = FALSE) \/ stored = <<>>
    THEN SliceTo(find_forecast_dates(fc, rec.current_cycle_charging_time_window_date),
                 rec.current_cycle_hours_to_charge)
    ELSE stored

\* the call above ends in the TypeError of find_forecast_dates
calculate_next_schedules_raises(status, rec, stored, fc) ==
    /\ (status # CHARGING /\ rec.start_scheduled_charging = FALSE) \/ stored = <<>>
    /\ find_forecast_dates_raises(fc, rec.current_cycle_charging_time_window_date)

\* faulty variant: the started schedule stays at the head of the stored ones
start_scheduled_charging_KeepHead(rec, scheds) ==
    LET r1 == [rec EXCEPT !.current_schedule_start = scheds[1].start_time]
        r2 == [r1 EXCEPT !.current_schedule_end = r1.current_schedule_start + Hour]
    IN  Result([r2 EXCEPT !.start_scheduled_charging = FALSE],
               scheds,
               start_charging(rec.output_source))

\* faulty variant: the end of the current schedule is not set
start_scheduled_charging_NoEnd(rec, scheds) ==
    LET r1 == [rec EXCEPT !.current_schedule_start = scheds[1].start_time]
    IN  Result([r1 EXCEPT !.start_scheduled_charging = FALSE],
               SubSeq(scheds, 2, Len(scheds)),
               start_charging(rec.output_source))

\* faulty variant: a started hour is taken off the hours to charge
start_scheduled_charging_CountsDown(rec, scheds) ==
    LET r1 == [rec EXCEPT !.current_schedule_start = scheds[1].start_time]
        r2 == [r1 EXCEPT !.current_schedule_end = r1.current_schedule_start + Hour]
        r3 == [r2 EXCEPT !.current_cycle_hours_to_charge = @ - 1]
    IN  Result([r3 EXCEPT !.start_scheduled_charging = FALSE],
               SubSeq(scheds, 2, Len(scheds)),
               start_charging(rec.output_source))

start_scheduled_charging(rec, scheds) ==
    LET r1 == [rec EXCEPT !.current_schedule_start = scheds[1].start_time]
        r2 == [r1 EXCEPT !.current_schedule_end = r1.current_schedule_start + Hour]
    IN  Result([r2 EXCEPT !.start_scheduled_charging = FALSE],
               SubSeq(scheds, 2, Len(scheds)),
               start_charging(rec.output_source))

\* faulty variant: the charging is stopped but the retry flag is not raised
stop_scheduled_charging_NoFlag(rec, scheds) ==
    Result(rec, scheds, stop_charging(rec.output_source))

stop_scheduled_charging(rec, scheds) ==
    Result([rec EXCEPT !.start_scheduled_charging = TRUE],
           scheds,
           stop_charging(rec.output_source))

\* faulty variant: only the start of the current schedule is cleared
reset_current_schedule_StartOnly(rec) ==
    [rec EXCEPT !.current_schedule_start = None]

reset_current_schedule(rec) ==
    [rec EXCEPT !.current_schedule_start = None, !.current_schedule_end = None]

\* faulty variant: a car that is not ready leaves the retry pending
try_to_start_charging_KeepPending(status, rec, scheds, current_time) ==
    IF status = READY
    THEN LET end_time == scheds[1].start_time + Hour
         IN  IF end_time > current_time /\ current_time > scheds[1].start_time
             THEN start_scheduled_charging(rec, scheds)
             ELSE Result(rec, scheds, <<>>)
    ELSE Result(rec, scheds, <<>>)

\* faulty variant: the end of the schedule's hour still counts as inside it
try_to_start_charging_LateEnd(status, rec, scheds, current_time) ==
    IF status = READY
    THEN LET end_time == scheds[1].start_time + Hour
         IN  IF end_time >= current_time /\ current_time > scheds[1].start_time
             THEN start_scheduled_charging(rec, scheds)
             ELSE Result(rec, scheds, <<>>)
    ELSE Result([rec EXCEPT !.start_scheduled_charging = FALSE], scheds, <<>>)

\* faulty variant: the car status is not looked at
try_to_start_charging_AnyStatus(status, rec, scheds, current_time) ==
    LET end_time == scheds[1].start_time + Hour
    IN  IF end_time > current_time /\ current_time > scheds[1].start_time
        THEN start_scheduled_charging(rec, scheds)
        ELSE Result(rec, scheds, <<>>)

try_to_start_charging(status, rec, scheds, current_time) ==
    IF status = READY
    THEN LET end_time == scheds[1].start_time + Hour
         IN  IF end_time > current_time /\ current_time > scheds[1].start_time
             THEN start_scheduled_charging(rec, scheds)
             ELSE Result(rec, scheds, <<>>)
    ELSE Result([rec EXCEPT !.start_scheduled_charging = FALSE], scheds, <<>>)

\* faulty variant: the outdated schedule is stopped but not reset
reset_or_continue_charging_NoReset(rec, scheds, current_time) ==
    IF current_time > rec.current_schedule_end
    THEN stop_scheduled_charging(rec, scheds)
    ELSE Result(rec, scheds, <<>>)

\* faulty variant: the schedule already counts as outdated at its end
reset_or_continue_charging_AtEnd(rec, scheds, current_time) ==
    IF current_time >= rec.current_schedule_end
    THEN LET stopped == stop_scheduled_charging(rec, scheds)
         IN  Result(reset_current_schedule(stopped.rec), scheds, stopped.cmds)
    ELSE Result(rec, scheds, <<>>)

\* faulty variant: the outdated schedule is stopped and the next one started
\* in the same iteration
reset_or_continue_charging_StopAndStart(rec, scheds, current_time) ==
    IF current_time > rec.current_schedule_end
    THEN LET stopped == stop_scheduled_charging(rec, scheds)
             started == start_scheduled_charging(reset_current_schedule(stopped.rec), scheds)
         IN  Result(started.rec, started.stored, stopped.cmds \o started.cmds)
    ELSE Result(rec, scheds, <<>>)

reset_or_continue_charging(rec, scheds, current_time) ==
    IF current_time > rec.current_schedule_end
    THEN LET stopped == stop_scheduled_charging(rec, scheds)
         IN  Result(reset_current_schedule(stopped.rec), scheds, stopped.cmds)
    ELSE Result(rec, scheds, <<>>)

\* faulty variant: a charging car without a schedule is started at once
ConsumerDecision_OnePhase(status, rec, scheds, current_time) ==
    IF rec.start_scheduled_charging
    THEN try_to_start_charging(status, rec, scheds, current_time)
    ELSE IF status = CHARGING
         THEN IF rec.current_schedule_start = None \/ rec.current_schedule_end = None
              THEN start_scheduled_charging(rec, scheds)
              ELSE reset_or_continue_charging(rec, scheds, current_time)
         ELSE IF rec.current_schedule_start # None \/ rec.current_schedule_end # None
              THEN Result(reset_current_schedule(rec), scheds,
                          stop_charging(rec.output_source))
              ELSE Result(rec, scheds, <<>>)

\* faulty variant: a car that left its schedule is stopped like an outdated one
ConsumerDecision_RetryOnDisconnect(status, rec, scheds, current_time) ==
    IF rec.start_scheduled_charging
    THEN try_to_start_charging(status, rec, scheds, current_time)
    ELSE IF status = CHARGING
         THEN IF rec.current_schedule_start = None \/ rec.current_schedule_end = None
              THEN stop_scheduled_charging(rec, scheds)
              ELSE reset_or_continue_charging(rec, scheds, current_time)
         ELSE IF rec.current_schedule_start # None \/ rec.current_schedule_end # None
              THEN LET stopped == stop_scheduled_charging(rec, scheds)
                   IN  Result(reset_current_schedule(stopped.rec), scheds, stopped.cmds)
              ELSE Result(rec, scheds, <<>>)

\* faulty variant: a car that left its schedule is reset without a stop call
ConsumerDecision_NoStop(status, rec, scheds, current_time) ==
    IF rec.start_scheduled_charging
    THEN try_to_start_charging(status, rec, scheds, current_time)
    ELSE IF status = CHARGING
         THEN IF rec.current_schedule_start = None \/ rec.current_schedule_end = None
              THEN stop_scheduled_charging(rec, scheds)
              ELSE reset_or_continue_charging(rec, scheds, current_time)
         ELSE IF rec.current_schedule_start # None \/ rec.current_schedule_end # None
              THEN Result(reset_current_schedule(rec), scheds, <<>>)
              ELSE Result(rec, scheds, <<>>)

\* faulty variant: a car that is not charging is stopped, schedule or not
ConsumerDecision_StopIdle(status, rec, scheds, current_time) ==
    IF rec.start_scheduled_charging
    THEN try_to_start_charging(status, rec, scheds, current_time)
    ELSE IF status = CHARGING
         THEN IF rec.current_schedule_start = None \/ rec.current_schedule_end = None
              THEN stop_scheduled_charging(rec, scheds)
              ELSE reset_or_continue_charging(rec, scheds, current_time)
         ELSE Result(reset_current_schedule(rec), scheds,
                     stop_charging(rec.output_source))

\* the body of the fetch_states loop below the empty-schedules check
ConsumerDecision(status, rec, scheds, current_time) ==
    IF rec.start_scheduled_charging
    THEN try_to_start_charging(status, rec, scheds, current_time)
    ELSE IF status = CHARGING
         THEN IF rec.current_schedule_start = None \/ rec.current_schedule_end = None
              THEN stop_scheduled_charging(rec, scheds)
              ELSE reset_or_continue_charging(rec, scheds, current_time)
         ELSE IF rec.current_schedule_start # None \/ rec.current_schedule_end # None
              THEN Result(reset_current_schedule(rec), scheds,
                          stop_charging(rec.output_source))
              ELSE Result(rec, scheds, <<>>)

\* what one loop iteration does to its consumer: the record and the stored
\* schedules it leaves, the service calls it makes, the schedules it works with
\* (used), and how it ends: skipped (not enabled), halted (the loop is left by
\* `break` or by an exception), raised (an exception leaves fetch_states)
Outcome(rec, stored, cmds, used, skipped, halted, raised) ==
    [ rec |-> rec, stored |-> stored, cmds |-> cmds, used |-> used,
      skipped |-> skipped, halted |-> halted, raised |-> raised ]

\* faulty variant: empty schedules do not end the iteration
ConsumerIteration_NoBreak(status, rec, stored, fc, current_time) ==
    IF ~(rec.enabled /\ rec.charging_schedules_enabled)
    THEN Outcome(rec, stored, <<>>, <<>>, TRUE, FALSE, FALSE)
    ELSE IF calculate_next_schedules_raises(status, rec, stored, fc)
    THEN Outcome(rec, stored, <<>>, <<>>, FALSE, TRUE, TRUE)
    ELSE LET scheds == calculate_next_schedules(status, rec, stored, fc)
             res == ConsumerDecision(status, rec, scheds, current_time)
         IN  Outcome(res.rec, res.stored, res.cmds, scheds, FALSE, FALSE, FALSE)

\* faulty variant: the enabled flags are not looked at
ConsumerIteration_IgnoreEnabled(status, rec, stored, fc, current_time) ==
    IF calculate_next_schedules_raises(status, rec, stored, fc)
    THEN Outcome(rec, stored, <<>>, <<>>, FALSE, TRUE, TRUE)
    ELSE LET scheds == calculate_next_schedules(status, rec, stored, fc)
         IN  IF scheds = <<>>
             THEN Outcome(rec, scheds, <<>>, scheds, FALSE, TRUE, FALSE)
             ELSE LET res == ConsumerDecision(status, rec, scheds, current_time)
                  IN  Outcome(res.rec, res.stored, res.cmds, scheds, FALSE, FALSE, FALSE)

\* the body of `for consumer in data[CONF_CONSUMERS]`
ConsumerIteration(status, rec, stored, fc, current_time) ==
    IF ~(rec.enabled /\ rec.charging_schedules_enabled)
    THEN Outcome(rec, stored, <<>>, <<>>, TRUE, FALSE, FALSE)
    ELSE IF calculate_next_schedules_raises(status, rec, stored, fc)
    THEN Outcome(rec, stored, <<>>, <<>>, FALSE, TRUE, TRUE)
    ELSE LET scheds == calculate_next_schedules(status, rec, stored, fc)
         IN  IF scheds = <<>>
             THEN \* "No schedules found": break
                  Outcome(rec, scheds, <<>>, scheds, FALSE, TRUE, FALSE)
             ELSE LET res == ConsumerDecision(status, rec, scheds, current_time)
                  IN  Outcome(res.rec, res.stored, res.cmds, scheds, FALSE, FALSE, FALSE)

\* ------------------------------------------------------------ initial state
NoForecast == [available |-> FALSE, list |-> <<>>]

NoPrev ==
    [ valid |-> FALSE, consumer |-> "", status |-> UNKNOWN, time |-> 0,
      rec |-> ConsumerRecord(0, None), stored |-> <<>>, used |-> <<>>,
      cmds |-> <<>>, last_cmd |-> "none", skipped |-> FALSE,
      halted |-> FALSE, raised |-> FALSE ]

\* async_setup: get_consumer_config fills the main state, nothing else exists yet
Init ==
    /\ \E q \in 1..MaxQuota, d \in Deadlines :
          data = [c \in Names |-> ConsumerRecord(q, d)]
    /\ schedules = [c \in Names |-> <<>>]
    /\ car_status = [c \in Names |-> UNKNOWN]
    /\ forecast = NoForecast
    /\ now = 0
    /\ queue = <<>>
    /\ running = FALSE
    /\ lastCmd = [c \in Names |-> "none"]
    /\ prev = NoPrev

\* --------------------------------------------------------- the environment
\* the forecast sensor lists one price per hour, in chronological order
Chronological(s) ==
    \A i \in 1..(Len(s) - 1) : s[i].start_time < s[i + 1].start_time

ForecastLists ==
    { s \in UNION { [1..n -> Entries] : n \in 0..MaxForecast } : Chronological(s) }

\* the go-eCharger integration reports a new car status
SetCarState ==
    /\ ~running
    /\ \E c \in DOMAIN data, s \in Statuses :
          /\ s # car_status[c]
          /\ car_status' = [car_status EXCEPT ![c] = s]
    /\ UNCHANGED <<data, schedules, forecast, now, queue, running, lastCmd, prev>>

\* the Awattar integration publishes a forecast, or its sensor disappears
SetForecast ==
    /\ ~running
    /\ \E f \in {NoForecast} \cup { [available |-> TRUE, list |-> s] : s \in ForecastLists } :
          /\ f # forecast
          /\ forecast' = f
    /\ UNCHANGED <<data, schedules, car_status, now, queue, running, lastCmd, prev>>

\* the wall clock
AdvanceTime ==
    /\ ~running
    /\ now < MaxTime
    /\ now' = now + 1
    /\ UNCHANGED <<data, schedules, car_status, forecast, queue, running, lastCmd, prev>>

\* ------------------------------------------------------------ fetch_states
\* the coordinator calls fetch_states: the loop starts over the consumers
RECURSIVE SeqOfSet(_)
SeqOfSet(S) ==
    IF S = {} THEN <<>>
    ELSE LET x == CHOOSE y \in S : TRUE IN <<x>> \o SeqOfSet(S \ {x})

TickStart ==
    /\ ~running
    /\ running' = TRUE
    /\ queue' = SeqOfSet(DOMAIN data)
    /\ prev' = NoPrev
    /\ UNCHANGED <<data, schedules, car_status, forecast, now, lastCmd>>

\* faulty variant: the schedules are stored under one name for all consumers
ApplyIteration_SharedSchedules(consumer, it) ==
    /\ data' = [data EXCEPT ![consumer] = it.rec]
    /\ schedules' = [c \in DOMAIN schedules |-> it.stored]
    /\ lastCmd' = [lastCmd EXCEPT ![consumer] =
                     IF it.cmds = <<>> THEN @ ELSE it.cmds[Len(it.cmds)]]
    /\ queue' = IF it.halted THEN <<>> ELSE Tail(queue)
    /\ prev' = [ valid |-> TRUE, consumer |-> consumer,
                 status |-> car_status[consumer], time |-> now,
                 rec |-> data[consumer], stored |-> schedules[consumer],
                 used |-> it.used, cmds |-> it.cmds, last_cmd |-> lastCmd[consumer],
                 skipped |-> it.skipped, halted |-> it.halted, raised |-> it.raised ]
    /\ UNCHANGED <<car_status, forecast, now, running>>

\* the state after a loop iteration with the given outcome
ApplyIteration(consumer, it) ==
    /\ data' = [data EXCEPT ![consumer] = it.rec]
    /\ schedules' = [schedules EXCEPT ![consumer] = it.stored]
    /\ lastCmd' = [lastCmd EXCEPT ![consumer] =
                     IF it.cmds = <<>> THEN @ ELSE it.cmds[Len(it.cmds)]]
    /\ queue' = IF it.halted THEN <<>> ELSE Tail(queue)
    /\ prev' = [ valid |-> TRUE, consumer |-> consumer,
                 status |-> car_status[consumer], time |-> now,
                 rec |-> data[consumer], stored |-> schedules[consumer],
                 used |-> it.used, cmds |-> it.cmds, last_cmd |-> lastCmd[consumer],
                 skipped |-> it.skipped, halted |-> it.halted, raised |-> it.raised ]
    /\ UNCHANGED <<car_status, forecast, now, running>>

\* one iteration of `for consumer in data[CONF_CONSUMERS]`
ProcessConsumer ==
    /\ running
    /\ queue # <<>>
    /\ LET consumer == Head(queue)
       IN  ApplyIteration(consumer,
                          ConsumerIteration(car_status[consumer], data[consumer],
                                            schedules[consumer], forecast, now))

\* `return data`: the refresh is over
TickEnd ==
    /\ running
    /\ queue = <<>>
    /\ running' = FALSE
    /\ prev' = NoPrev
    /\ UNCHANGED <<data, schedules, car_status, forecast, now, queue, lastCmd>>

Next ==
    \/ SetCarState
    \/ SetForecast
    \/ AdvanceTime
    \/ TickStart
    \/ ProcessConsumer
    \/ TickEnd

Spec == Init /\ [][Next]_vars

\* ------------------------------------------------- a whole refresh at once
\* the loop of fetch_states over the consumers in the given order, started
\* from records d and stored schedules s; cmds collects the service calls
RECURSIVE RunLoop(_, _, _, _)
RunLoop(order, d, s, cmds) ==
    IF order = <<>>
    THEN [data |-> d, schedules |-> s, cmds |-> cmds]
    ELSE LET consumer == Head(order)
             it == ConsumerIteration(car_status[consumer], d[consumer], s[consumer],
                                     forecast, now)
             d2 == [d EXCEPT ![consumer] = it.rec]
             s2 == [s EXCEPT ![consumer] = it.stored]
             cmds2 == [cmds EXCEPT ![consumer] = it.cmds]
         IN  IF it.halted
             THEN [data |-> d2, schedules |-> s2, cmds |-> cmds2]
             ELSE RunLoop(Tail(order), d2, s2, cmds2)

\* fetch_states run from the current state, the consumers' dict in that order
fetch_states(order) ==
    RunLoop(order, data, schedules, [c \in DOMAIN data |-> <<>>])

\* the orders in which the consumers can have been configured
Orders ==
    { o \in [1..Cardinality(DOMAIN data) -> DOMAIN data] :
        \A i, j \in DOMAIN o : i # j => o[i] # o[j] }

\* ------------------------------------------------------ several consumers
Chargers == {"charger1", "charger2"}

\* two forecasts that tell a window ending at 0 from one ending an hour later
SampleForecasts ==
    { NoForecast,
      [available |-> TRUE,
       list |-> <<[marketprice |-> 2, start_time |-> 0],
                  [marketprice |-> 1, start_time |-> Hour]>>],
      [available |-> TRUE,
       list |-> <<[marketprice |-> 1, start_time |-> Hour]>>] }

\* async_setup with two configured consumers
InitMulti ==
    /\ \E d1, d2 \in {0, Hour} :
          data = [c \in Chargers |->
                    ConsumerRecord(1, IF c = "charger1" THEN d1 ELSE d2)]
    /\ schedules = [c \in Chargers |-> <<>>]
    /\ car_status = [c \in Chargers |-> UNKNOWN]
    /\ forecast = NoForecast
    /\ now = 0
    /\ queue = <<>>
    /\ running = FALSE
    /\ lastCmd = [c \in Chargers |-> "none"]
    /\ prev = NoPrev

\* the Awattar integration publishes one of the sample forecasts
SetSampleForecast ==
    /\ ~running
    /\ \E f \in SampleForecasts :
          /\ f # forecast
          /\ forecast' = f
    /\ UNCHANGED <<data, schedules, car_status, now, queue, running, lastCmd, prev>>

NextMulti ==
    \/ SetCarState
    \/ SetSampleForecast
    \/ AdvanceTime
    \/ TickStart
    \/ ProcessConsumer
    \/ TickEnd

SpecMulti == InitMulti /\ [][NextMulti]_vars

\* ------------------------------------------------- the ranking on its own
\* forecast lists in any order, repeated entries included
AnyForecastLists == UNION { [1..n -> Entries] : n \in 0..MaxForecast }

\* hours_to_charge of a validated configuration: absent, or an integer >= 0
Quotas == {NoQuota} \cup (0..MaxQuota)

\* one consumer, any quota, any window date, any forecast
InitRanker ==
    /\ \E q \in Quotas, d \in StartTimes :
          data = [c \in Names |-> ConsumerRecord(q, d)]
    /\ \E f \in {NoForecast} \cup { [available |-> TRUE, list |-> l] : l \in AnyForecastLists } :
          forecast = f
    /\ schedules = [c \in Names |-> <<>>]
    /\ car_status = [c \in Names |-> UNKNOWN]
    /\ now = 0
    /\ queue = <<>>
    /\ running = FALSE
    /\ lastCmd = [c \in Names |-> "none"]
    /\ prev = NoPrev

\* lines 174-180 of calculate_next_schedules: rank, cut to the quota, store
RankForecast ==
    /\ ~prev.valid
    /\ \E c \in DOMAIN data :
          LET forecast_time_range ==
                  find_forecast_dates(forecast, data[c].current_cycle_charging_time_window_date)
              forecast_portion ==
                  SliceTo(forecast_time_range, data[c].current_cycle_hours_to_charge)
          IN  /\ schedules' = [schedules EXCEPT ![c] = forecast_portion]
              /\ prev' = [NoPrev EXCEPT !.valid = TRUE, !.consumer = c,
                                        !.rec = data[c], !.used = forecast_portion]
    /\ UNCHANGED <<data, car_status, forecast, now, queue, running, lastCmd>>

NextRanker == RankForecast

SpecRanker == InitRanker /\ [][NextRanker]_vars

\* ------------------------------------------ the initial consumer records
MaxDays == 2        \* days of wall clock the setup may fall in

SIMPLE == "simple"
PRECISE == "precise"
Modes == {SIMPLE, PRECISE}
Day == 24 * Hour    \* timedelta(days=1), in clock units
SEVEN_AM == 7 * Hour
SIMPLE_HOURS_TO_CHARGE == 4

\* charging_time_window_hours of a validated configuration: absent (written
\* NoQuota here as well), or an integer >= 0
WindowHours == {NoQuota} \cup (0..MaxQuota)

\* calculations.py, calculate_next_time_window; current is datetime.now()
calculate_next_time_window(smart_energy_mode, charging_time_window_hours, current) ==
    IF smart_energy_mode = SIMPLE
    THEN \* replace(hour=7, minute=0, ...) on today's date, then one day more
         (current - (current % Day)) + SEVEN_AM + Day
    ELSE IF charging_time_window_hours = NoQuota \/ charging_time_window_hours = 0
         THEN None
         ELSE current + charging_time_window_hours * Hour

\* calculations.py, calculate_time_window_hours; timedelta.seconds is the part
\* of the difference within one day, whole days are in timedelta.days.  The
\* second datetime.now() falls in the same clock unit as the first.
calculate_time_window_hours(next_time_window, current_date) ==
    IF next_time_window = None
    THEN NoQuota
    ELSE ((next_time_window - current_date) % Day) \div Hour

\* calculations.py, get_consumer_config, for one configured consumer
get_consumer_config(consumer, current) ==
    LET next_time_window ==
            calculate_next_time_window(consumer.smart_energy_mode,
                                       consumer.charging_time_window_hours, current)
    IN  [ smart_energy_mode |-> consumer.smart_energy_mode,
          current_cycle_charging_time_window_hours |->
              IF consumer.smart_energy_mode = SIMPLE
              THEN calculate_time_window_hours(next_time_window, current)
              ELSE consumer.charging_time_window_hours ]
        @@ ConsumerRecord(IF consumer.smart_energy_mode = SIMPLE
                          THEN SIMPLE_HOURS_TO_CHARGE
                          ELSE consumer.hours_to_charge,
                          next_time_window)

\* the configured consumers of the domain, before the records are built
ConfiguredConsumers ==
    [ name : Names, smart_energy_mode : Modes,
      hours_to_charge : Quotas, charging_time_window_hours : WindowHours ]

InitWindow ==
    /\ now \in 0..(MaxDays * Day - 1)
    /\ \E consumer \in ConfiguredConsumers : queue = <<consumer>>
    /\ data = [c \in {} |-> ConsumerRecord(NoQuota, None)]
    /\ schedules = [c \in {} |-> <<>>]
    /\ car_status = [c \in Names |-> UNKNOWN]
    /\ forecast = NoForecast
    /\ running = FALSE
    /\ lastCmd = [c \in Names |-> "none"]
    /\ prev = NoPrev

\* __init__.py, async_setup: the records of all configured consumers
SetupConsumers ==
    /\ queue # <<>>
    /\ data' = [c \in { queue[i].name : i \in DOMAIN queue } |->
                  LET i == CHOOSE k \in DOMAIN queue : queue[k].name = c
                  IN  get_consumer_config(queue[i], now)]
    /\ schedules' = [c \in { queue[i].name : i \in DOMAIN queue } |-> <<>>]
    /\ queue' = <<>>
    /\ UNCHANGED <<car_status, forecast, now, running, lastCmd, prev>>

NextWindow == SetupConsumers

SpecWindow == InitWindow /\ [][NextWindow]_vars

\* ---------------------------------------------- service calls that fail
\* how the awaited hass.services.async_call(..., blocking=True) can end
ServiceOutcomes == {"done", "raised"}

\* start_scheduled_charging left by the exception at `await start_charging`:
\* the current schedule is set and the head is taken off the stored schedules,
\* the assignment to START_SCHEDULED_CHARGING is not reached
start_scheduled_charging_raised(rec, scheds) ==
    LET r1 == [rec EXCEPT !.current_schedule_start = scheds[1].start_time]
        r2 == [r1 EXCEPT !.current_schedule_end = r1.current_schedule_start + Hour]
    IN  Result(r2, SubSeq(scheds, 2, Len(scheds)), start_charging(rec.output_source))

\* stop_scheduled_charging left by the exception at `await stop_charging`
stop_scheduled_charging_raised(rec, scheds) ==
    Result(rec, scheds, stop_charging(rec.output_source))

try_to_start_charging_raised(status, rec, scheds, current_time) ==
    IF status = READY
    THEN LET end_time == scheds[1].start_time + Hour
         IN  IF end_time > current_time /\ current_time > scheds[1].start_time
             THEN start_scheduled_charging_raised(rec, scheds)
             ELSE Result(rec, scheds, <<>>)
    ELSE Result([rec EXCEPT !.start_scheduled_charging = FALSE], scheds, <<>>)

\* the exception passes through: reset_current_schedule is not reached
reset_or_continue_charging_raised(rec, scheds, current_time) ==
    IF current_time > rec.current_schedule_end
    THEN stop_scheduled_charging_raised(rec, scheds)
    ELSE Result(rec, scheds, <<>>)

\* the loop body below the empty-schedules check when its service call raises
ConsumerDecisionRaised(status, rec, scheds, current_time) ==
    IF rec.start_scheduled_charging
    THEN try_to_start_charging_raised(status, rec, scheds, current_time)
    ELSE IF status = CHARGING
         THEN IF rec.current_schedule_start = None \/ rec.current_schedule_end = None
              THEN stop_scheduled_charging_raised(rec, scheds)
              ELSE reset_or_continue_charging_raised(rec, scheds, current_time)
         ELSE IF rec.current_schedule_start # None \/ rec.current_schedule_end # None
              THEN Result(rec, scheds, stop_charging(rec.output_source))
              ELSE Result(rec, scheds, <<>>)

\* a loop iteration with the given outcome of its service call, if it makes one
ConsumerIterationWith(outcome, status, rec, stored, fc, current_time) ==
    LET it == ConsumerIteration(status, rec, stored, fc, current_time)
    IN  IF outcome = "done" \/ it.cmds = <<>>
        THEN it
        ELSE LET scheds == calculate_next_schedules(status, rec, stored, fc)
                 res == ConsumerDecisionRaised(status, rec, scheds, current_time)
             IN  Outcome(res.rec, res.stored, res.cmds, scheds, FALSE, TRUE, TRUE)

\* precise-mode consumers set up at time 0, window hours absent or zero included
InitFaults ==
    /\ now = 0
    /\ \E consumer \in ConfiguredConsumers :
          /\ consumer.smart_energy_mode = PRECISE
          /\ consumer.hours_to_charge = 1
          /\ consumer.charging_time_window_hours \in {NoQuota, 0, 1}
          /\ data = [c \in {consumer.name} |-> get_consumer_config(consumer, now)]
    /\ schedules = [c \in Names |-> <<>>]
    /\ car_status = [c \in Names |-> UNKNOWN]
    /\ forecast = NoForecast
    /\ queue = <<>>
    /\ running = FALSE
    /\ lastCmd = [c \in Names |-> "none"]
    /\ prev = NoPrev

\* one iteration of the loop whose service call raises: fetch_states is left
ProcessConsumerFailed ==
    /\ running
    /\ queue # <<>>
    /\ \E outcome \in ServiceOutcomes \ {"done"} :
          LET consumer == Head(queue)
              it == ConsumerIterationWith(outcome, car_status[consumer], data[consumer],
                                          schedules[consumer], forecast, now)
          IN  /\ it.raised /\ it.cmds # <<>>
              /\ ApplyIteration(consumer, it)

NextFaults ==
    \/ SetCarState
    \/ SetForecast
    \/ AdvanceTime
    \/ TickStart
    \/ ProcessConsumer
    \/ ProcessConsumerFailed
    \/ TickEnd

SpecFaults == InitFaults /\ [][NextFaults]_vars

\* ------------------------- several consumers, switches and failing calls
\* the values of (enabled, charging_schedules.enabled) a record can hold
Switches == { <<TRUE, TRUE>>, <<FALSE, TRUE>>, <<TRUE, FALSE>> }

\* two configured consumers, each with its switches
InitLoop ==
    /\ \E sw \in [Chargers -> Switches] :
          data = [c \in Chargers |->
                    [ConsumerRecord(1, Hour) EXCEPT
                        !.enabled = sw[c][1],
                        !.charging_schedules_enabled = sw[c][2]]]
    /\ schedules = [c \in Chargers |-> <<>>]
    /\ car_status = [c \in Chargers |-> UNKNOWN]
    /\ forecast = NoForecast
    /\ now = 0
    /\ queue = <<>>
    /\ running = FALSE
    /\ lastCmd = [c \in Chargers |-> "none"]
    /\ prev = NoPrev

NextLoop ==
    \/ SetCarState
    \/ SetSampleForecast
    \/ AdvanceTime
    \/ TickStart
    \/ ProcessConsumer
    \/ ProcessConsumerFailed
    \/ TickEnd

SpecLoop == InitLoop /\ [][NextLoop]_vars

\* ------------------------------------------- consumers come and go
\* what a config entry hands to add_to_main_state (create_consumer_assignment:
\* the mode of the options, no hours)
EntryConsumers ==
    [ name : Chargers, smart_energy_mode : {SIMPLE},
      hours_to_charge : {NoQuota}, charging_time_window_hours : {NoQuota} ]

\* the registry operation a state was reached by, for the properties below
Logged(op, name, present) ==
    [op |-> op, present |-> present] @@ [NoPrev EXCEPT !.consumer = name]

\* faulty variant: the record of a name that is present is built anew
add_to_main_state_Overwrite(d, consumer, current) ==
    [c \in DOMAIN d \cup {consumer.name} |->
        IF c = consumer.name THEN get_consumer_config(consumer, current) ELSE d[c]]

\* state.py, add_to_main_state: the consumers' dict after the call
add_to_main_state(d, consumer, current) ==
    IF consumer.name \in DOMAIN d
    THEN d
    ELSE [c \in DOMAIN d \cup {consumer.name} |->
            IF c = consumer.name THEN get_consumer_config(consumer, current) ELSE d[c]]

\* state.py, remove_from_main_state
remove_from_main_state(d, consumer_name) ==
    [c \in DOMAIN d \ {consumer_name} |-> d[c]]

\* async_setup with charger1 in configuration.yaml, precise mode, at any time
\* of the clock; the registry is then followed at that time
InitRegistry ==
    /\ now \in 0..MaxTime
    /\ \E consumer \in ConfiguredConsumers :
          /\ consumer.name = "charger1"
          /\ consumer.smart_energy_mode = PRECISE
          /\ consumer.hours_to_charge = 1
          /\ consumer.charging_time_window_hours = 1
          /\ data = [c \in {consumer.name} |-> get_consumer_config(consumer, now)]
    /\ schedules = [c \in Chargers |-> <<>>]
    /\ car_status = [c \in Chargers |-> UNKNOWN]
    /\ forecast = NoForecast
    /\ queue = <<>>
    /\ running = FALSE
    /\ lastCmd = [c \in Chargers |-> "none"]
    /\ prev = NoPrev

\* async_setup_entry of a config entry
AddToMainState ==
    /\ ~running
    /\ \E consumer \in EntryConsumers :
          /\ data' = add_to_main_state(data, consumer, now)
          /\ prev' = Logged("add", consumer.name, consumer.name \in DOMAIN data)
    /\ UNCHANGED <<schedules, car_status, forecast, now, queue, running, lastCmd>>

\* async_unload_entry of a config entry
RemoveFromMainState ==
    /\ ~running
    /\ \E consumer_name \in Chargers :
          /\ data' = remove_from_main_state(data, consumer_name)
          /\ prev' = Logged("remove", consumer_name, consumer_name \in DOMAIN data)
    /\ UNCHANGED <<schedules, car_status, forecast, now, queue, running, lastCmd>>

NextRegistry ==
    \/ AddToMainState
    \/ RemoveFromMainState
    \/ SetCarState
    \/ SetSampleForecast
    \/ TickStart
    \/ ProcessConsumer
    \/ TickEnd

SpecRegistry == InitRegistry /\ [][NextRegistry]_vars

\* --------------------------------------- the hours that were started
\* the record with a history field next to the fields of the code: the start
\* times of the schedules for which a start call was made.  No operator of
\* the code reads it.
WithHistory(rec) == [started_hours |-> {}] @@ rec

\* the outcome of an iteration with the history brought up to date
Counted(it) ==
    IF \E i \in DOMAIN it.cmds : it.cmds[i] = "start"
    THEN [it EXCEPT !.rec.started_hours = @ \cup {it.rec.current_schedule_start}]
    ELSE it

\* one consumer with a quota of one hour, as in Init
InitQuota ==
    /\ \E d \in Deadlines :
          data = [c \in Names |-> WithHistory(ConsumerRecord(1, d))]
    /\ schedules = [c \in Names |-> <<>>]
    /\ car_status = [c \in Names |-> UNKNOWN]
    /\ forecast = NoForecast
    /\ now = 0
    /\ queue = <<>>
    /\ running = FALSE
    /\ lastCmd = [c \in Names |-> "none"]
    /\ prev = NoPrev

\* one iteration of `for consumer in data[CONF_CONSUMERS]`, history kept
ProcessConsumerCounted ==
    /\ running
    /\ queue # <<>>
    /\ LET consumer == Head(queue)
       IN  ApplyIteration(consumer,
                          Counted(ConsumerIteration(car_status[consumer], data[consumer],
                                                    schedules[consumer], forecast, now)))

NextQuota ==
    \/ SetCarState
    \/ SetForecast
    \/ AdvanceTime
    \/ TickStart
    \/ ProcessConsumerCounted
    \/ TickEnd

SpecQuota == InitQuota /\ [][NextQuota]_vars

\* ------------------------------------- refreshes that wait for a call
MaxSuspended == 2   \* refreshes that wait for their service call at one time

\* when the timer of the coordinator calls fetch_states: with no refresh in
\* progress, or while one waits for its service call
TimerFires == {"idle", "suspended"}

\* what a refresh that waits at `await start_charging` / `await stop_charging`
\* still has to do once the call returns: the statements after the await
Continuation(status, rec) ==
    IF rec.start_scheduled_charging
    THEN "flag_false"                   \* start_scheduled_charging, line 199
    ELSE IF status = CHARGING
         THEN IF rec.current_schedule_start = None \/ rec.current_schedule_end = None
              THEN "flag_true"          \* stop_scheduled_charging, line 208
              ELSE "flag_true_reset"    \* ... and reset_or_continue_charging, line 262
         ELSE "reset"                   \* fetch_states, line 348

\* the statements after the await, on the record as it is by then
Resume(todo, rec) ==
    CASE todo = "flag_false" -> [rec EXCEPT !.start_scheduled_charging = FALSE]
      [] todo = "flag_true" -> [rec EXCEPT !.start_scheduled_charging = TRUE]
      [] todo = "flag_true_reset" ->
            reset_current_schedule([rec EXCEPT !.start_scheduled_charging = TRUE])
      [] todo = "reset" -> reset_current_schedule(rec)

\* one consumer with a quota of one hour; in this specification queue holds
\* the refreshes that wait for their service call
InitOverlap ==
    /\ \E d \in Deadlines :
          data = [c \in Names |-> ConsumerRecord(1, d)]
    /\ schedules = [c \in Names |-> <<>>]
    /\ car_status = [c \in Names |-> UNKNOWN]
    /\ forecast = NoForecast
    /\ now = 0
    /\ queue = <<>>
    /\ running = FALSE
    /\ lastCmd = [c \in Names |-> "none"]
    /\ prev = NoPrev

\* fetch_states from its entry to its first await, or to its end if the
\* iteration makes no service call
FetchStates ==
    /\ \E fires \in TimerFires :
          \/ fires = "idle" /\ queue = <<>>
          \/ fires = "suspended" /\ queue # <<>> /\ Len(queue) < MaxSuspended
    /\ \E consumer \in DOMAIN data :
          LET whole == ConsumerIteration(car_status[consumer], data[consumer],
                                         schedules[consumer], forecast, now)
              it == ConsumerIterationWith("raised", car_status[consumer], data[consumer],
                                          schedules[consumer], forecast, now)
          IN  /\ data' = [data EXCEPT ![consumer] = it.rec]
              /\ schedules' = [schedules EXCEPT ![consumer] = it.stored]
              /\ lastCmd' = [lastCmd EXCEPT ![consumer] =
                               IF it.cmds = <<>> THEN @ ELSE it.cmds[Len(it.cmds)]]
              /\ queue' = IF whole.cmds = <<>>
                          THEN queue
                          ELSE Append(queue,
                                      [consumer |-> consumer, cmd |-> whole.cmds[1],
                                       todo |-> Continuation(car_status[consumer],
                                                             data[consumer])])
              /\ prev' = [ valid |-> TRUE, consumer |-> consumer,
                           status |-> car_status[consumer], time |-> now,
                           rec |-> data[consumer], stored |-> schedules[consumer],
                           used |-> it.used, cmds |-> it.cmds,
                           last_cmd |-> lastCmd[consumer],
                           skipped |-> it.skipped, halted |-> it.halted,
                           raised |-> FALSE ]
    /\ UNCHANGED <<car_status, forecast, now, running>>

\* the sequence without its i-th element
Without(q, i) == SubSeq(q, 1, i - 1) \o SubSeq(q, i + 1, Len(q))

\* a service call returns: the refresh that waited for it goes on to its end
ServiceCallReturns ==
    /\ \E i \in DOMAIN queue :
          /\ data' = [data EXCEPT ![queue[i].consumer] = Resume(queue[i].todo, @)]
          /\ queue' = Without(queue, i)
    /\ prev' = NoPrev
    /\ UNCHANGED <<schedules, car_status, forecast, now, running, lastCmd>>

\* a service call raises: the refresh that waited for it is left
ServiceCallRaises ==
    /\ \E i \in DOMAIN queue, outcome \in ServiceOutcomes \ {"done"} :
          queue' = Without(queue, i)
    /\ prev' = NoPrev
    /\ UNCHANGED <<data, schedules, car_status, forecast, now, running, lastCmd>>

NextOverlap ==
    \/ SetCarState
    \/ SetSampleForecast
    \/ AdvanceTime
    \/ FetchStates
    \/ ServiceCallReturns
    \/ ServiceCallRaises

SpecOverlap == InitOverlap /\ [][NextOverlap]_vars

\* ------------------------------------- the whole record of a consumer
\* input_source of a configured consumer (cv.string)
InputSources == {"smartenergy_awattar"}

\* get_consumer_config with the input source, which no operator above reads
FullConsumerConfig(consumer, input_source, current) ==
    [input_source |-> input_source] @@ get_consumer_config(consumer, current)

\* async_setup at time 0 with one consumer: simple mode, or precise mode with
\* one hour to charge in a window of one hour
InitConfig ==
    /\ now = 0
    /\ \E consumer \in ConfiguredConsumers, input_source \in InputSources :
          /\ \/ /\ consumer.smart_energy_mode = SIMPLE
                /\ consumer.hours_to_charge = NoQuota
                /\ consumer.charging_time_window_hours = NoQuota
             \/ /\ consumer.smart_energy_mode = PRECISE
                /\ consumer.hours_to_charge = 1
                /\ consumer.charging_time_window_hours = 1
          /\ data = [c \in {consumer.name} |->
                       FullConsumerConfig(consumer, input_source, now)]
    /\ schedules = [c \in Names |-> <<>>]
    /\ car_status = [c \in Names |-> UNKNOWN]
    /\ forecast = NoForecast
    /\ queue = <<>>
    /\ running = FALSE
    /\ lastCmd = [c \in Names |-> "none"]
    /\ prev = NoPrev

NextConfig ==
    \/ SetCarState
    \/ SetSampleForecast
    \/ AdvanceTime
    \/ TickStart
    \/ ProcessConsumer
    \/ ProcessConsumerFailed
    \/ TickEnd

SpecConfig == InitConfig /\ [][NextConfig]_vars

\* ---------------------------------- forecasts that list an hour twice
\* the forecast list s with its first entry listed once more
Repeated(s) == <<s[1]>> \o s

\* the lists the forecast attribute can hold: one price per hour, or such a
\* list with an entry repeated (the attribute is read as it is)
RepeatingForecastLists ==
    ForecastLists \cup
    { Repeated(s) : s \in { l \in ForecastLists : 0 < Len(l) /\ Len(l) < MaxForecast } }

\* the Awattar integration publishes a forecast, or its sensor disappears
SetRepeatingForecast ==
    /\ ~running
    /\ \E f \in {NoForecast} \cup
                { [available |-> TRUE, list |-> s] : s \in RepeatingForecastLists } :
          /\ f # forecast
          /\ forecast' = f
    /\ UNCHANGED <<data, schedules, car_status, now, queue, running, lastCmd, prev>>

NextRepeats ==
    \/ SetCarState
    \/ SetRepeatingForecast
    \/ AdvanceTime
    \/ TickStart
    \/ ProcessConsumer
    \/ TickEnd

SpecRepeats == Init /\ [][NextRepeats]_vars

\* --------------------------------------------- refreshes keep coming
\* the coordinator's timer calls fetch_states again and again, and a call
\* that has begun runs to its end
NextLive ==
    \/ SetCarState
    \/ SetSampleForecast
    \/ AdvanceTime
    \/ TickStart
    \/ ProcessConsumer
    \/ TickEnd

SpecLive ==
    /\ Init
    /\ [][NextLive]_vars
    /\ WF_vars(TickStart)
    /\ WF_vars(ProcessConsumer)
    /\ WF_vars(TickEnd)

\* ------------------------------- a car that does what it is told
\* the car status after the service calls cmds of a refresh: ready after a
\* stop call, charging after a start call, as before with no call
Follows(status, cmds) ==
    IF cmds = <<>> THEN status
    ELSE IF cmds[Len(cmds)] = "stop" THEN READY ELSE CHARGING

\* the schedule entries there can be
Slots == [value : Prices, start_time : StartTimes]

\* one consumer with a charging car; the forecast is published once and
\* stays as it is.  prev.used names one schedule entry to be followed
\* through the behaviour; no operator of the code reads it.
InitCooperative ==
    /\ \E q \in 1..MaxQuota, d \in StartTimes :
          data = [c \in Names |-> ConsumerRecord(q, d)]
    /\ \E s \in ForecastLists : forecast = [available |-> TRUE, list |-> s]
    /\ schedules = [c \in Names |-> <<>>]
    /\ car_status = [c \in Names |-> CHARGING]
    /\ now = 0
    /\ queue = <<>>
    /\ running = FALSE
    /\ lastCmd = [c \in Names |-> "none"]
    /\ \E s \in Slots : prev = [NoPrev EXCEPT !.used = <<s>>]

\* a whole call of fetch_states, and the car's answer to its service calls
CooperativeRefresh ==
    /\ \E done \in {fetch_states(SeqOfSet(DOMAIN data))} :
          /\ data' = done.data
          /\ schedules' = done.schedules
          /\ lastCmd' = [c \in DOMAIN lastCmd |->
                           IF done.cmds[c] = <<>> THEN lastCmd[c]
                           ELSE done.cmds[c][Len(done.cmds[c])]]
          /\ car_status' = [c \in DOMAIN car_status |-> Follows(car_status[c], done.cmds[c])]
    /\ UNCHANGED <<forecast, now, queue, running, prev>>

\* a refresh at the present time would change nothing and make no call
Settled ==
    \E done \in {fetch_states(SeqOfSet(DOMAIN data))} :
        /\ done.data = data
        /\ done.schedules = schedules
        /\ \A c \in DOMAIN data : done.cmds[c] = <<>>

\* the wall clock; the refreshes are seconds apart, so the clock reaches its
\* next half hour only after refreshes that had nothing left to do
Elapse ==
    /\ Settled
    /\ now < MaxTime
    /\ now' = now + 1
    /\ UNCHANGED <<data, schedules, car_status, forecast, queue, running, lastCmd, prev>>

NextCooperative ==
    \/ CooperativeRefresh
    \/ Elapse

SpecCooperative ==
    /\ InitCooperative
    /\ [][NextCooperative]_vars
    /\ WF_vars(CooperativeRefresh)
    /\ WF_vars(Elapse)

\* ================================================================ properties
\* The states of a consumer, derived from its record
IDLE(rec) == rec.current_schedule_start = None /\ rec.start_scheduled_charging = FALSE
AWAITING_START(rec) == rec.start_scheduled_charging = TRUE
ACTIVE(rec) == rec.current_schedule_start # None

NoSlot(rec) == rec.current_schedule_start = None /\ rec.current_schedule_end = None

\* the last loop iteration went past the enabled check for its consumer
Ran == prev.valid /\ ~prev.skipped
\* ... and past the empty-schedules check
Decided == Ran /\ prev.used # <<>>
\* the record of that consumer after the iteration
After == data[prev.consumer]
\* now lies in [start_time, start_time + 1h) of the head of the schedules
InHeadHour == /\ prev.used[1].start_time <= prev.time
              /\ prev.time < prev.used[1].start_time + Hour

\* C1: between two refreshes the start and the end of the current schedule
\* are both set or both None, and a pending retry has neither.
SlotRecordInvariant ==
    ~running =>
        \A c \in DOMAIN data :
            /\ (data[c].current_schedule_start = None) <=> (data[c].current_schedule_end = None)
            /\ data[c].start_scheduled_charging = TRUE => NoSlot(data[c])

\* C1 witness: a refresh is over that made a stop call and left the retry
\* pending with no slot set, the first schedule already taken from the list.
SlotRecordWitness ==
    /\ ~running
    /\ \E c \in DOMAIN data :
          /\ data[c].start_scheduled_charging = TRUE
          /\ NoSlot(data[c])
          /\ lastCmd[c] = "stop"
          /\ Len(schedules[c]) < data[c].current_cycle_hours_to_charge

\* C2: an idle consumer whose car is charging, with schedules at hand, gets
\* exactly one stop call, no start call, and its retry flag raised.
IdleChargingStops ==
    (/\ Decided
     /\ IDLE(prev.rec) /\ NoSlot(prev.rec)
     /\ prev.status = CHARGING)
    => /\ prev.cmds = <<"stop">>
       /\ After.start_scheduled_charging = TRUE

\* C2 witness: such an iteration has just run.
IdleChargingWitness ==
    /\ Decided
    /\ IDLE(prev.rec) /\ NoSlot(prev.rec)
    /\ prev.status = CHARGING
    /\ prev.cmds = <<"stop">>

\* C3: a pending retry with a ready car and now anywhere in
\* [start_time, start_time + 1h) of the head schedule, the start included,
\* gets exactly one start call, loses the head schedule, has the current
\* schedule set to that hour and the retry flag cleared.
ConfirmedStartClosedAtStart ==
    (/\ Decided
     /\ AWAITING_START(prev.rec)
     /\ prev.status = READY
     /\ InHeadHour)
    => /\ prev.cmds = <<"start">>
       /\ schedules[prev.consumer] = Tail(prev.used)
       /\ After.current_schedule_start = prev.used[1].start_time
       /\ After.current_schedule_end = prev.used[1].start_time + Hour
       /\ After.start_scheduled_charging = FALSE

\* C4 as stated: an active consumer whose schedule is outdated gets, whatever
\* the car status, exactly one stop call, its slot cleared and the retry
\* flag raised.
OutdatedStopsAnyStatus ==
    (/\ Decided
     /\ ACTIVE(prev.rec)
     /\ prev.time > prev.rec.current_schedule_end)
    => /\ prev.cmds = <<"stop">>
       /\ NoSlot(After)
       /\ After.start_scheduled_charging = TRUE

\* C4 amended: the same for the car status "Car is charging".
OutdatedStopsWhenCharging ==
    (/\ Decided
     /\ ACTIVE(prev.rec)
     /\ prev.time > prev.rec.current_schedule_end
     /\ prev.status = CHARGING)
    => /\ prev.cmds = <<"stop">>
       /\ NoSlot(After)
       /\ After.start_scheduled_charging = TRUE

\* C4 witness: an outdated schedule of a charging car was just handled.
OutdatedWitness ==
    /\ Decided
    /\ ACTIVE(prev.rec)
    /\ prev.time > prev.rec.current_schedule_end
    /\ prev.status = CHARGING
    /\ prev.cmds = <<"stop">>

\* C5: a start call is made only in an iteration that found the retry flag
\* raised; the flag is raised only by an iteration that made a stop call; no
\* iteration makes both calls; and the call before any start call for the
\* same consumer is a stop call of an earlier refresh.
TwoPhaseStart ==
    Ran =>
        /\ (\E i \in DOMAIN prev.cmds : prev.cmds[i] = "start")
              => /\ prev.rec.start_scheduled_charging = TRUE
                 /\ prev.cmds = <<"start">>
                 /\ prev.last_cmd = "stop"
        /\ (prev.rec.start_scheduled_charging = FALSE /\ After.start_scheduled_charging = TRUE)
              => prev.cmds = <<"stop">>

\* C5 witness: a start call was just made, the call before it was a stop.
TwoPhaseWitness ==
    /\ Ran
    /\ prev.cmds = <<"start">>
    /\ prev.last_cmd = "stop"
    /\ prev.rec.start_scheduled_charging = TRUE

\* C6: a pending retry that meets any car status but the ready one is
\* dropped: the flag is cleared, no call is made, no slot is set and the
\* schedules keep their head.
NotReadyDropsRetry ==
    (/\ Decided
     /\ AWAITING_START(prev.rec)
     /\ prev.status # READY)
    => /\ After.start_scheduled_charging = FALSE
       /\ prev.cmds = <<>>
       /\ NoSlot(After)
       /\ schedules[prev.consumer] = prev.used
       /\ IDLE(After)

\* C6 witness: a retry was just dropped for a car without a known status.
NotReadyWitness ==
    /\ Decided
    /\ AWAITING_START(prev.rec)
    /\ prev.status = UNKNOWN
    /\ After.start_scheduled_charging = FALSE

\* C7: a pending retry with a ready car and now before the head schedule's
\* hour, or at or after its end, changes nothing and makes no call.
OutsideHourWaits ==
    (/\ Decided
     /\ AWAITING_START(prev.rec)
     /\ prev.status = READY
     /\ \/ prev.time < prev.used[1].start_time
        \/ prev.time >= prev.used[1].start_time + Hour)
    => /\ prev.cmds = <<>>
       /\ After.start_scheduled_charging = TRUE
       /\ NoSlot(After)
       /\ schedules[prev.consumer] = prev.stored

\* C7 witness: a retry just waited with now exactly at the end of the hour.
OutsideHourWitness ==
    /\ Decided
    /\ AWAITING_START(prev.rec)
    /\ prev.status = READY
    /\ prev.time = prev.used[1].start_time + Hour
    /\ After.start_scheduled_charging = TRUE

DisconnectedWhileActiveStops ==
    (/\ Decided
     /\ ACTIVE(prev.rec)
     /\ prev.status \notin {CHARGING, READY})
    => /\ prev.cmds = <<"stop">>
       /\ NoSlot(After)
       /\ After.start_scheduled_charging = FALSE
       /\ IDLE(After)

\* C10 witness: a car without a connection was just taken off an outdated schedule.
DisconnectedWhileActiveWitness ==
    /\ Decided
    /\ ACTIVE(prev.rec)
    /\ prev.status = NO_CAR
    /\ prev.time > prev.rec.current_schedule_end
    /\ prev.cmds = <<"stop">>

\* the forecast entries that start by the deadline, as schedule entries
Eligible(fc, deadline) ==
    IF fc.available
    THEN { [value |-> fc.list[i].marketprice, start_time |-> fc.list[i].start_time] :
             i \in { j \in DOMAIN fc.list : fc.list[j].start_time <= deadline } }
    ELSE {}

\* r lists the `quota` cheapest eligible entries, cheapest first, ties by start
\* time (for a forecast without repeated entries and a quota >= 0)
IsSelectCheapest(r, fc, deadline, quota) ==
    /\ Len(r) = Min(quota, Cardinality(Eligible(fc, deadline)))
    /\ \A i \in DOMAIN r : r[i] \in Eligible(fc, deadline)
    /\ \A i, j \in DOMAIN r :
          i < j => \/ r[i].value < r[j].value
                   \/ r[i].value = r[j].value /\ r[i].start_time < r[j].start_time
    /\ \A e \in Eligible(fc, deadline) :
          \/ \E i \in DOMAIN r : r[i] = e
          \/ \A i \in DOMAIN r :
                \/ r[i].value < e.value
                \/ r[i].value = e.value /\ r[i].start_time < e.start_time

\* the condition under which the refresh step recomputes the schedules
RefreshDue ==
    \/ prev.status # CHARGING /\ prev.rec.start_scheduled_charging = FALSE
    \/ prev.stored = <<>>

PrevDeadline == prev.rec.current_cycle_charging_time_window_date
PrevQuota == prev.rec.current_cycle_hours_to_charge

\* C11: the iteration of an enabled consumer works with the cheapest eligible
\* forecast hours when the car is not charging and no retry is pending, or
\* when nothing is stored; in every other case with the stored schedules.
RefreshRule ==
    (Ran /\ ~prev.raised) =>
        IF RefreshDue
        THEN IsSelectCheapest(prev.used, forecast, PrevDeadline, PrevQuota)
        ELSE prev.used = prev.stored

\* C11 witness: a pending retry kept stored schedules that the forecast of
\* that moment would not have produced.
RefreshRuleWitness ==
    /\ Ran
    /\ ~RefreshDue
    /\ prev.status = READY
    /\ prev.used = prev.stored
    /\ ~IsSelectCheapest(prev.stored, forecast, PrevDeadline, PrevQuota)

\* C12: an iteration whose schedules are empty after the refresh step makes no
\* service call and leaves the record as it was, whatever the state of the
\* consumer; a missing forecast sensor, an empty forecast and a forecast with
\* no entry up to the deadline all end this way.
EmptySchedulesNoAction ==
    /\ (Ran /\ ~prev.raised /\ prev.used = <<>>)
          => /\ prev.cmds = <<>>
             /\ After = prev.rec
    /\ (Ran /\ ~prev.raised /\ RefreshDue /\ Eligible(forecast, PrevDeadline) = {})
          => /\ prev.used = <<>>
             /\ prev.cmds = <<>>
             /\ After = prev.rec

\* C12 witness: an active consumer whose car is charging met a missing
\* forecast sensor with nothing stored, and was left alone.
EmptySchedulesWitness ==
    /\ Ran
    /\ ACTIVE(prev.rec)
    /\ prev.status = CHARGING
    /\ ~forecast.available
    /\ prev.used = <<>>
    /\ After = prev.rec

\* the consumers that come after c in the loop of the running refresh
RECURSIVE After_(_, _)
After_(order, c) ==
    IF order = <<>> THEN <<>>
    ELSE IF Head(order) = c THEN Tail(order)
    ELSE After_(Tail(order), c)

\* the elements of a sequence
Range(q) == { q[i] : i \in DOMAIN q }

\* C13: when the refresh step of one consumer yields no schedules, every
\* consumer that the loop has not visited yet and whose own iteration makes
\* a start or stop call is still to be visited in the same refresh.
EmptySchedulesKeepLoop ==
    (Ran /\ ~prev.raised /\ prev.used = <<>>) =>
        \A c \in Range(After_(SeqOfSet(DOMAIN data), prev.consumer)) :
            ConsumerIteration(car_status[c], data[c], schedules[c], forecast, now).cmds # <<>>
                => c \in Range(queue)

\* C14: a refresh started between two refreshes gives every consumer the
\* same record, the same stored schedules and the same service calls for
\* every order of the consumers.
OrderIndependent ==
    ~running =>
        \A o1, o2 \in Orders : fetch_states(o1) = fetch_states(o2)

\* the positions of the forecast list whose entry starts by the deadline
EligibleAt(fc, deadline) ==
    IF fc.available
    THEN { i \in DOMAIN fc.list : fc.list[i].start_time <= deadline }
    ELSE {}

\* C15: the ranked and cut list is ascending by (price, start time), holds
\* only forecast entries that start by the deadline, and is as long as the
\* smaller of the quota and the number of such entries (integer quota >= 0).
RankerContract ==
    (prev.valid /\ PrevQuota # NoQuota) =>
        /\ \A i, j \in DOMAIN prev.used :
              i < j => \/ prev.used[i].value < prev.used[j].value
                       \/ /\ prev.used[i].value = prev.used[j].value
                          /\ prev.used[i].start_time <= prev.used[j].start_time
        /\ \A i \in DOMAIN prev.used :
              \E k \in EligibleAt(forecast, PrevDeadline) :
                  /\ forecast.list[k].marketprice = prev.used[i].value
                  /\ forecast.list[k].start_time = prev.used[i].start_time
        /\ Len(prev.used) = Min(PrevQuota, Cardinality(EligibleAt(forecast, PrevDeadline)))
        /\ schedules[prev.consumer] = prev.used

\* C15 witness: of two eligible entries listed dearest first, a quota of one
\* kept the cheaper, which is the later hour.
RankerWitness ==
    /\ prev.valid
    /\ PrevQuota = 1
    /\ Cardinality(EligibleAt(forecast, PrevDeadline)) = 2
    /\ forecast.list[1].marketprice > forecast.list[2].marketprice
    /\ forecast.list[1].start_time < forecast.list[2].start_time
    /\ prev.used = <<[value |-> forecast.list[2].marketprice,
                      start_time |-> forecast.list[2].start_time]>>

\* C16: with a quota of zero or less, or no quota at all, the ranked and cut
\* list is empty.
NoQuotaNoSchedules ==
    (prev.valid /\ (PrevQuota = NoQuota \/ PrevQuota <= 0)) => prev.used = <<>>

\* the first 07:00 strictly after the instant t
NextSevenAfter(t) ==
    IF t % Day < SEVEN_AM
    THEN (t - (t % Day)) + SEVEN_AM
    ELSE (t - (t % Day)) + Day + SEVEN_AM

\* C17: a simple-mode record holds as its window date the first 07:00 after
\* the moment it was built, and 4 as its hours to charge.
SimpleWindowIsNextSeven ==
    \A c \in DOMAIN data :
        ("smart_energy_mode" \in DOMAIN data[c] /\ data[c].smart_energy_mode = SIMPLE) =>
            /\ data[c].current_cycle_charging_time_window_date = NextSevenAfter(now)
            /\ data[c].current_cycle_hours_to_charge = SIMPLE_HOURS_TO_CHARGE

\* C18: a simple-mode record holds as its window hours the whole hours between
\* the moment it was built and the window date stored in the same record.
SimpleWindowHoursTruncated ==
    \A c \in DOMAIN data :
        ("smart_energy_mode" \in DOMAIN data[c] /\ data[c].smart_energy_mode = SIMPLE) =>
            data[c].current_cycle_charging_time_window_hours =
                (data[c].current_cycle_charging_time_window_date - now) \div Hour

\* C19: the iteration of a precise-mode consumer without a window date works
\* with no schedules, makes no service call and raises nothing, whatever the
\* forecast sensor holds.
NoWindowNoError ==
    (/\ Ran
     /\ prev.rec.smart_energy_mode = PRECISE
     /\ PrevDeadline = None) =>
        /\ prev.used = <<>>
        /\ prev.cmds = <<>>
        /\ ~prev.raised

\* the last loop iteration made a service call and the call raised
CallFailed(cmd) == Ran /\ prev.raised /\ prev.cmds # <<>> /\ prev.cmds[1] = cmd

\* C20: an iteration whose service call fails leaves the record as the call
\* was meant to leave it: a failed start leaves no pending retry, the current
\* schedule set to the head's hour and the head taken off the stored
\* schedules; a failed stop without a current schedule leaves the retry
\* pending; a failed stop of an outdated schedule leaves the retry pending and
\* no current schedule.  The call is made once.
FailedCallKeepsIntendedState ==
    /\ CallFailed("start") =>
          /\ After.start_scheduled_charging = FALSE
          /\ After.current_schedule_start = prev.used[1].start_time
          /\ After.current_schedule_end = prev.used[1].start_time + Hour
          /\ schedules[prev.consumer] = Tail(prev.used)
          /\ Len(prev.cmds) = 1
    /\ (CallFailed("stop") /\ prev.status = CHARGING /\ NoSlot(prev.rec)) =>
          /\ After.start_scheduled_charging = TRUE
          /\ Len(prev.cmds) = 1
    /\ (CallFailed("stop") /\ prev.status = CHARGING /\ ~NoSlot(prev.rec)) =>
          /\ After.start_scheduled_charging = TRUE
          /\ NoSlot(After)
          /\ Len(prev.cmds) = 1

\* the consumer takes part in the scheduling
Enabled(rec) == rec.enabled /\ rec.charging_schedules_enabled

\* C21: when the iteration of one consumer ends in an exception, every
\* enabled consumer that the loop has not visited yet is still to be visited
\* in the same refresh.
FailureKeepsLoop ==
    (Ran /\ prev.raised) =>
        \A c \in Range(After_(SeqOfSet(DOMAIN data), prev.consumer)) :
            Enabled(data[c]) => c \in Range(queue)

\* the consumers other than c
Others(c) == DOMAIN data \ {c}

\* C24: a loop iteration changes the record, the stored schedules and the
\* last service call of the consumer it processes, and of no other consumer.
IterationFrame ==
    [][ (running /\ queue # <<>>) =>
            \A c \in Others(Head(queue)) :
                /\ data'[c] = data[c]
                /\ schedules'[c] = schedules[c]
                /\ lastCmd'[c] = lastCmd[c] ]_vars

\* C24 witness: an iteration made a service call and changed its consumer's
\* record while another consumer holds stored schedules and a current schedule.
IterationFrameWitness ==
    /\ Ran
    /\ prev.cmds # <<>>
    /\ After # prev.rec
    /\ \E c \in Others(prev.consumer) :
          /\ schedules[c] # <<>>
          /\ schedules[c] # schedules[prev.consumer]
          /\ ACTIVE(data[c])

\* C25: the iteration of a consumer whose enabled switch or whose scheduling
\* switch is off makes no service call, leaves the record and the stored
\* schedules as they were, whatever the car status, and the loop goes on
\* with the consumers after it.
DisabledSkipped ==
    (prev.valid /\ ~Enabled(prev.rec)) =>
        /\ prev.cmds = <<>>
        /\ After = prev.rec
        /\ schedules[prev.consumer] = prev.stored
        /\ lastCmd[prev.consumer] = prev.last_cmd
        /\ queue = After_(SeqOfSet(DOMAIN data), prev.consumer)

\* C25 witness: a switched-off consumer with a charging car was passed over
\* and an enabled consumer is next in the loop.
DisabledSkippedWitness ==
    /\ prev.valid
    /\ ~Enabled(prev.rec)
    /\ prev.status = CHARGING
    /\ forecast.available
    /\ queue # <<>>
    /\ Enabled(data[Head(queue)])

\* C26: the iteration of an idle consumer (no retry pending, no current
\* schedule) whose car is not charging makes no service call and leaves the
\* current schedule and the retry flag as they were.
IdleNotChargingQuiet ==
    (/\ Ran
     /\ IDLE(prev.rec) /\ NoSlot(prev.rec)
     /\ prev.status # CHARGING)
    => /\ prev.cmds = <<>>
       /\ After.current_schedule_start = prev.rec.current_schedule_start
       /\ After.current_schedule_end = prev.rec.current_schedule_end
       /\ After.start_scheduled_charging = prev.rec.start_scheduled_charging

\* C26 witness: an idle consumer with a ready car went through the decision,
\* and only its stored schedules were replaced.
IdleNotChargingWitness ==
    /\ Decided
    /\ IDLE(prev.rec) /\ NoSlot(prev.rec)
    /\ prev.status = READY
    /\ prev.stored # <<>>
    /\ schedules[prev.consumer] # prev.stored
    /\ After = prev.rec

\* the last loop iteration made a start call
Started == \E i \in DOMAIN prev.cmds : prev.cmds[i] = "start"

\* C27: after an enabled consumer's iteration its stored schedules are the
\* ones stored before, or the cheapest eligible forecast hours as a whole, or
\* the schedules the iteration worked with less their head; the head is gone
\* exactly when the iteration made a start call, and otherwise the stored
\* schedules are the ones worked with, element for element.
StoredSchedulesEdits ==
    Ran =>
        LET after == schedules[prev.consumer]
        IN  /\ \/ after = prev.stored
               \/ IsSelectCheapest(after, forecast, PrevDeadline, PrevQuota)
               \/ prev.used # <<>> /\ after = Tail(prev.used)
            /\ Started <=> (prev.used # <<>> /\ after = Tail(prev.used))
            /\ ~Started => after = prev.used

\* C27 witness: a start call was made with two schedules at hand and the
\* second one is what stays stored.
StoredSchedulesWitness ==
    /\ Ran
    /\ Started
    /\ Len(prev.used) = 2
    /\ schedules[prev.consumer] = <<prev.used[2]>>

\* the state was reached by the registry operation op
IsLog(op) == "op" \in DOMAIN prev /\ prev.op = op

\* a record as get_consumer_config builds it
Fresh(rec) ==
    /\ rec.enabled = TRUE
    /\ rec.charging_schedules_enabled = TRUE
    /\ rec.current_schedule_start = None
    /\ rec.current_schedule_end = None
    /\ rec.start_scheduled_charging = FALSE

\* C28: the record of a consumer that was just added, and of a consumer for
\* which no service call was made yet, is enabled for scheduling, has no
\* current schedule and no pending retry; and the iteration of such a record
\* makes no start call.
NewRecordIdle ==
    /\ (IsLog("add") /\ ~prev.present) => Fresh(data[prev.consumer])
    /\ \A c \in DOMAIN data : lastCmd[c] = "none" => Fresh(data[c])
    /\ (Ran /\ Fresh(prev.rec)) => ~Started

\* C28 witness: the first iteration of a consumer added by a config entry
\* found its car charging and made a stop call.
NewRecordWitness ==
    /\ Ran
    /\ Fresh(prev.rec)
    /\ prev.rec.smart_energy_mode = SIMPLE
    /\ prev.last_cmd = "none"
    /\ prev.cmds = <<"stop">>

\* C29: adding a name leaves every record that exists as it is, the record
\* of that name included, and the names are then the old ones and the added
\* one; removing a name leaves the other records as they are and the names
\* are then the old ones without the removed one.
RegistryFrame ==
    [][ /\ IsLog("add")' =>
              /\ DOMAIN data' = DOMAIN data \cup {prev'.consumer}
              /\ \A c \in DOMAIN data : data'[c] = data[c]
        /\ IsLog("remove")' =>
              /\ DOMAIN data' = DOMAIN data \ {prev'.consumer}
              /\ \A c \in DOMAIN data' : data'[c] = data[c] ]_vars

\* C29 witness: a name was added again while its record has a current
\* schedule, and the other consumer has a retry pending.
RegistryFrameWitness ==
    /\ IsLog("add")
    /\ prev.present
    /\ ACTIVE(data[prev.consumer])
    /\ \E c \in Others(prev.consumer) : AWAITING_START(data[c])

\* C30: for no consumer is the number of different schedule hours for which
\* a start call was made larger than its hours to charge, whatever the car
\* reports and however the forecast changes between refreshes.
StartsWithinQuota ==
    \A c \in DOMAIN data :
        Cardinality(data[c].started_hours) <= data[c].current_cycle_hours_to_charge

\* the refreshes that wait for the call cmd for consumer c
Waiting(c, cmd) ==
    { i \in DOMAIN queue : queue[i].consumer = c /\ queue[i].cmd = cmd }

\* C22: at no time do two refreshes wait for a start call for the same
\* consumer: a refresh that begins while another one waits for its call
\* makes no second start call and pops no second schedule.
NoSecondStart ==
    \A c \in DOMAIN data : Cardinality(Waiting(c, "start")) <= 1

\* C23: while a refresh waits for its service call, the record and the
\* stored schedules of its consumer are the ones from before the decision or
\* the ones the decision leads to; and no record ever shows a current
\* schedule together with a pending retry.
AtomicRecordUpdate ==
    /\ (Ran /\ prev.cmds # <<>>) =>
          LET intended == ConsumerDecision(prev.status, prev.rec, prev.used, prev.time)
          IN  \/ /\ After = prev.rec
                 /\ schedules[prev.consumer] \in {prev.stored, prev.used}
              \/ /\ After = intended.rec
                 /\ schedules[prev.consumer] = intended.stored
    /\ \A c \in DOMAIN data : data[c].start_scheduled_charging => NoSlot(data[c])

\* C37: whenever the start of the current schedule is set, its end is set to
\* one hour after the start.
SlotIsOneHour ==
    \A c \in DOMAIN data :
        data[c].current_schedule_start # None =>
            data[c].current_schedule_end = data[c].current_schedule_start + Hour

\* C37 witness: a start call has set a current schedule that begins after
\* time 0, and the car charges in it.
SlotIsOneHourWitness ==
    \E c \in DOMAIN data :
        /\ data[c].current_schedule_start > 0
        /\ lastCmd[c] = "start"
        /\ car_status[c] = CHARGING

\* C33: the end of a current schedule is never later than the window date of
\* its consumer.
SlotEndsInWindow ==
    \A c \in DOMAIN data :
        ACTIVE(data[c]) =>
            data[c].current_schedule_end <= data[c].current_cycle_charging_time_window_date

\* the head of the schedules is the cheapest of them, ties by start time
HeadIsCheapest(scheds) ==
    \A i \in DOMAIN scheds : ~KeyLess(scheds[i], scheds[1])

\* C34: an iteration that makes a start call makes the head of its schedules
\* the current schedule; that head is the cheapest of them, starts by the
\* window date, the car was read as ready, the time lies inside the head's
\* hour and is no later than the window date plus one hour.
StartOnlyHeadInHour ==
    (Ran /\ Started) =>
        /\ After.current_schedule_start = prev.used[1].start_time
        /\ HeadIsCheapest(prev.used)
        /\ prev.used[1].start_time <= PrevDeadline
        /\ prev.status = READY
        /\ InHeadHour
        /\ prev.time <= PrevDeadline + Hour

\* C34 witness: a start call was made for the hour that begins at the window
\* date, with a dearer earlier hour left in the schedules.
StartOnlyHeadWitness ==
    /\ Ran
    /\ Started
    /\ prev.used[1].start_time = PrevDeadline
    /\ Len(prev.used) = 2
    /\ prev.used[2].start_time < prev.used[1].start_time

\* C35: a loop iteration makes at most one service call, so never a start
\* and a stop call together, whatever the record, the car status and the
\* time; and a refresh visits no consumer twice.
OneCommandPerTick ==
    /\ prev.valid => Len(prev.cmds) <= 1
    /\ running =>
          /\ \A i, j \in DOMAIN queue : i # j => queue[i] # queue[j]
          /\ prev.valid => prev.consumer \notin Range(queue)

\* C35 witness: the last iteration of a refresh made a start call, and the
\* last call for the other consumer is a stop call.
OneCommandWitness ==
    /\ Ran
    /\ prev.cmds = <<"start">>
    /\ running /\ queue = <<>>
    /\ \E c \in Others(prev.consumer) : lastCmd[c] = "stop"

\* the fields of a record that a refresh may write
TickFields == {"current_schedule_start", "current_schedule_end", "start_scheduled_charging"}

\* C38: no step of a refresh changes the names of the consumers or, in any
\* record, a field other than the current schedule's start and end and the
\* retry flag: input and output source, mode, both switches, hours to
\* charge, window hours and window date stay as set up, also once the window
\* date has passed.
ConfigFrame ==
    [][ /\ DOMAIN data' = DOMAIN data
        /\ \A c \in DOMAIN data :
              /\ DOMAIN data'[c] = DOMAIN data[c]
              /\ \A f \in DOMAIN data[c] \ TickFields : data'[c][f] = data[c][f] ]_vars

\* C38 witness: the window date of a precise-mode consumer has passed, a
\* refresh has stopped its outdated schedule, and its window date and hours
\* are the ones of the setup.
ConfigFrameWitness ==
    \E c \in DOMAIN data :
        /\ data[c].smart_energy_mode = PRECISE
        /\ now > data[c].current_cycle_charging_time_window_date + Hour
        /\ data[c].start_scheduled_charging
        /\ lastCmd[c] = "stop"
        /\ data[c].current_cycle_charging_time_window_date = Hour
        /\ data[c].current_cycle_charging_time_window_hours = 1
        /\ data[c].input_source \in InputSources

\* the stored schedules s are in (price, start time) order, start by the
\* window date and are no more than the hours to charge
RankedWithin(s, rec) ==
    /\ \A i, j \in DOMAIN s : i < j => (KeyLess(s[i], s[j]) \/ s[i] = s[j])
    /\ \A i \in DOMAIN s : s[i].start_time <= rec.current_cycle_charging_time_window_date
    /\ rec.current_cycle_hours_to_charge >= 0 => Len(s) <= rec.current_cycle_hours_to_charge

\* how often the entry e occurs in the list s
Count(e, s) == Cardinality({ i \in DOMAIN s : s[i] = e })

\* how often the forecast lists the schedule entry e
Listed(e) ==
    IF forecast.available
    THEN Cardinality({ i \in DOMAIN forecast.list :
                         /\ forecast.list[i].marketprice = e.value
                         /\ forecast.list[i].start_time = e.start_time })
    ELSE 0

\* C36 as stated: the stored schedules of every consumer are in (price,
\* start time) order, start by the window date, hold no entry twice and are
\* no more than the hours to charge.
StoredSchedulesWellFormed ==
    \A c \in DOMAIN data :
        /\ RankedWithin(schedules[c], data[c])
        /\ \A i, j \in DOMAIN schedules[c] : i # j => schedules[c][i] # schedules[c][j]

\* C36 amended: the same, except that an entry is stored as often as the
\* forecast lists it: after an iteration no entry occurs in the stored
\* schedules more often than it did before or than the forecast lists it.
StoredSchedulesRanked ==
    /\ \A c \in DOMAIN data : RankedWithin(schedules[c], data[c])
    /\ Ran =>
          \A e \in Range(schedules[prev.consumer]) :
              Count(e, schedules[prev.consumer]) <= Max(Count(e, prev.stored), Listed(e))

\* C36 witness: the forecast lists an entry twice and a refresh has stored
\* it twice, within the hours to charge.
StoredRankedWitness ==
    /\ Ran
    /\ RefreshDue
    /\ Len(schedules[prev.consumer]) = 2
    /\ schedules[prev.consumer][1] = schedules[prev.consumer][2]
    /\ Listed(schedules[prev.consumer][1]) = 2

\* the current schedule of consumer c is over
Expired(c) == ACTIVE(data[c]) /\ now > data[c].current_schedule_end

\* C32: once the current schedule of a consumer is over and its car goes on
\* reporting that it charges, a stop call is made for it at some later
\* refresh, whatever is stored and whatever the forecast sensor holds.
ExpiredIsStopped ==
    \A c \in Names :
        []((Expired(c) /\ [](car_status[c] = CHARGING)) => <>(lastCmd[c] = "stop"))

\* the schedule entry that is followed
Watched == prev.used[1]

\* C31: with a car that does what it is told, a forecast that stays as it
\* is and refreshes in every hour, every stored schedule whose hour has not
\* begun becomes the current schedule during its hour.
SelectedSlotRuns ==
    \A c \in Names :
        (Watched \in Range(schedules[c]) /\ now < Watched.start_time)
            ~> (/\ data[c].current_schedule_start = Watched.start_time
                /\ Watched.start_time <= now /\ now < Watched.start_time + Hour)

====
